---- MODULE Spec2Model ----
(***************************************************************************)
(* A model of src/lib.rs of rust-memoized: the lazy memoizer `Memoized`    *)
(* and the expiring memoizer `MemoizedWithExpiration`.                     *)
(*                                                                         *)
(* The producer is the caller's FnMut closure.  The two producers of the   *)
(* crate's tests are modelled: "counter" (called += 1; called) and "succ"  *)
(* (input + 1).  Any invocation may also unwind (panic), not returning.    *)
(* Rc allocations are cells of `heap`; an Rc<T> is an index into it.       *)
(* Every returned handle is kept by the caller in the access log.          *)
(***************************************************************************)
EXTENDS Integers, Sequences, FiniteSets

\* ---- bounds of the model ------------------------------------------------
MaxLazyCalls == 4
MaxCalls == 3
MaxTime == 3
MaxDuration == 2
MaxInput == 1
MaxProducerTime == 1
MaxRaceTime == 1

Inputs == 0..MaxInput
Producers == {"counter", "succ"}

VARIABLES
  m,        \* the Memoized enum value: [tag, t]
  m_f,      \* the boxed producer given to Memoized::new: [kind, called]
  m_log,    \* one record per Memoized::get call, in call order
  duration, \* MemoizedWithExpiration.duration
  last,     \* MemoizedWithExpiration.last (an Instant)
  f,        \* MemoizedWithExpiration.f: [kind, called]
  t,        \* MemoizedWithExpiration.t: None or an Rc (index into heap)
  heap,     \* the values of the Rc allocations made so far
  now,      \* the monotonic clock read by Instant::now()
  e_log,    \* one record per MemoizedWithExpiration::get call, in call order
  th        \* two callers sharing the expiring memoizer: where each is in get

lazyVars == <<m, m_f, m_log>>
expVars == <<duration, last, f, t, heap, now, e_log>>
vars == <<m, m_f, m_log, duration, last, f, t, heap, now, e_log, th>>

\* the callers of the unsynchronised use of one MemoizedWithExpiration
Callers == {"a", "b"}

\* a caller that has not entered get
Outside ==
  [pc |-> "start", saw |-> FALSE, had |-> 0, hadLast |-> 0,
   at |-> 0, n0 |-> 0, inv |-> FALSE, val |-> 0, rc |-> 0]

\* Option::None for the field t; a Some(rc) is a heap index >= 1.
None == 0

\* The value an invocation of the producer returns: `called` is the closure's
\* counter after this invocation's increment.
Produce(kind, called, input) ==
  IF kind = "counter" THEN called ELSE input + 1

\* ---- Memoized (the lazy memoizer) ---------------------------------------

\* Memoized::new
MemoizedNew(kind) ==
  /\ m = [tag |-> "UnInitialized", t |-> 0]
  /\ m_f = [kind |-> kind, called |-> 0]
  /\ m_log = <<>>

\* a get that computes f(input) and does not assign *self
ResolveNoStore(input) ==
  /\ m.tag = "UnInitialized"
  /\ m_f' = [m_f EXCEPT !.called = @ + 1]
  /\ m' = m

\* get, arm UnInitialized, f(input) returns: *self = Self::Data(t)
Resolve(input) ==
  /\ m.tag = "UnInitialized"
  /\ m_f' = [m_f EXCEPT !.called = @ + 1]
  /\ m' = [tag |-> "Data", t |-> Produce(m_f.kind, m_f.called + 1, input)]

\* a get that moves out of the Pending state before f(input) has returned
LazyUnwindPoisoned(input) ==
  /\ m.tag = "UnInitialized"
  /\ m_f' = [m_f EXCEPT !.called = @ + 1]
  /\ m' = [tag |-> "Data", t |-> 0]

\* get, arm UnInitialized, f(input) unwinds: *self is never assigned
LazyUnwind(input) ==
  /\ m.tag = "UnInitialized"
  /\ m_f' = [m_f EXCEPT !.called = @ + 1]
  /\ m' = m

\* a get that calls f(input) before matching and drops the result when Data
LazyHitCallsAgain(input) ==
  /\ m.tag = "Data"
  /\ m_f' = [m_f EXCEPT !.called = @ + 1]
  /\ m' = m

\* a get whose Data arm stores f(input) again
LazyHitRecompute(input) ==
  /\ m.tag = "Data"
  /\ m_f' = [m_f EXCEPT !.called = @ + 1]
  /\ m' = [tag |-> "Data", t |-> Produce(m_f.kind, m_f.called + 1, input)]

\* a get whose Data arm hands the memoizer back to the Pending state
LazyHitReset(input) ==
  /\ m.tag = "Data"
  /\ m' = [tag |-> "UnInitialized", t |-> 0]
  /\ UNCHANGED m_f

\* get, arm Data: the stored value is returned, input is dropped
LazyHit(input) ==
  /\ m.tag = "Data"
  /\ UNCHANGED <<m, m_f>>

\* the caller's record of a get call and its outcome: panic is "none" when
\* the call returned &T, else what unwound
LazyRecord(input, panic) ==
  [input |-> input, invoked |-> m_f'.called # m_f.called,
   ok |-> panic = "none", panic |-> panic,
   val |-> IF panic = "none" THEN m'.t ELSE 0]

\* the match that ends get: Self::Data(ref t) => t, _ => unreachable!()
MatchData == IF m'.tag = "Data" THEN "none" ELSE "unreachable"

\* Memoized::get(input), with the caller's record of the call
Get(input) ==
  /\ Len(m_log) < MaxLazyCalls
  /\ \/ /\ Resolve(input) \/ LazyHit(input)
        /\ m_log' = Append(m_log, LazyRecord(input, MatchData))
     \/ /\ LazyUnwind(input)
        /\ m_log' = Append(m_log, LazyRecord(input, "producer"))
  /\ UNCHANGED expVars
  /\ UNCHANGED th

\* ---- MemoizedWithExpiration (the expiring memoizer) ---------------------

\* MemoizedWithExpiration::new at clock reading 0
MemoizedWithExpirationNew(kind, d) ==
  /\ duration = d
  /\ now = 0
  /\ last = now
  /\ f = [kind |-> kind, called |-> 0]
  /\ t = None
  /\ heap = <<>>
  /\ e_log = <<>>
  /\ th = [p \in Callers |-> Outside]

\* Instant::elapsed of self.last
Elapsed == now - last

\* a staleness test that never expires a stored value
IsStaleUnsetOnly == t = None

\* a staleness test that expires a value at elapsed = duration
IsStaleGe == t = None \/ Elapsed >= duration

\* a staleness test that trusts self.last even before anything was computed
IsStaleElapsedOnly == Elapsed > duration

\* the condition of get's if
IsStale == t = None \/ Elapsed > duration

\* a get that writes the new value through the Rc it already holds
RecomputeInPlace(input, dt) ==
  /\ IsStale
  /\ now + dt <= MaxTime
  /\ f' = [f EXCEPT !.called = @ + 1]
  /\ IF t = None
       THEN /\ heap' = Append(heap, Produce(f.kind, f.called + 1, input))
            /\ t' = Len(heap) + 1
       ELSE /\ heap' = [heap EXCEPT ![t] = Produce(f.kind, f.called + 1, input)]
            /\ t' = t
  /\ now' = now + dt
  /\ last' = now + dt

\* a get that stores the new Rc and leaves self.last alone
RecomputeNoStamp(input, dt) ==
  /\ IsStale
  /\ now + dt <= MaxTime
  /\ f' = [f EXCEPT !.called = @ + 1]
  /\ heap' = Append(heap, Produce(f.kind, f.called + 1, input))
  /\ t' = Len(heap) + 1
  /\ now' = now + dt
  /\ last' = last

\* a get that reads the clock for self.last before calling the producer
RecomputeStampBefore(input, dt) ==
  /\ IsStale
  /\ now + dt <= MaxTime
  /\ f' = [f EXCEPT !.called = @ + 1]
  /\ heap' = Append(heap, Produce(f.kind, f.called + 1, input))
  /\ t' = Len(heap) + 1
  /\ now' = now + dt
  /\ last' = now

\* get, stale, (self.f)(input) returns after dt: a new Rc is stored, then the
\* clock is read again for self.last
Recompute(input, dt) ==
  /\ IsStale
  /\ now + dt <= MaxTime
  /\ f' = [f EXCEPT !.called = @ + 1]
  /\ heap' = Append(heap, Produce(f.kind, f.called + 1, input))
  /\ t' = Len(heap) + 1
  /\ now' = now + dt
  /\ last' = now + dt

\* a get that sets self.last before calling the producer
UnwindTouched(input, dt) ==
  /\ IsStale
  /\ now + dt <= MaxTime
  /\ f' = [f EXCEPT !.called = @ + 1]
  /\ now' = now + dt
  /\ last' = now
  /\ UNCHANGED <<t, heap>>

\* a get that takes self.t before calling the producer
UnwindCleared(input, dt) ==
  /\ IsStale
  /\ now + dt <= MaxTime
  /\ f' = [f EXCEPT !.called = @ + 1]
  /\ now' = now + dt
  /\ t' = None
  /\ UNCHANGED <<heap, last>>

\* get, stale, (self.f)(input) unwinds after dt: neither field is assigned
Unwind(input, dt) ==
  /\ IsStale
  /\ now + dt <= MaxTime
  /\ f' = [f EXCEPT !.called = @ + 1]
  /\ now' = now + dt
  /\ UNCHANGED <<t, heap, last>>

\* a get that restarts the validity window on every call
HitTouch(input) ==
  /\ ~IsStale
  /\ last' = now
  /\ UNCHANGED <<f, t, heap, now>>

\* a get that recomputes whenever the input differs from the previous call's
HitKeyed(input) ==
  /\ ~IsStale
  /\ IF input # e_log[Len(e_log)].input
       THEN /\ f' = [f EXCEPT !.called = @ + 1]
            /\ heap' = Append(heap, Produce(f.kind, f.called + 1, input))
            /\ t' = Len(heap) + 1
            /\ last' = now
            /\ now' = now
       ELSE UNCHANGED <<f, t, heap, now, last>>

\* a get that returns the stored value wrapped in an Rc of its own
HitRealloc(input) ==
  /\ ~IsStale
  /\ heap' = Append(heap, heap[t])
  /\ t' = Len(heap) + 1
  /\ UNCHANGED <<f, now, last>>

\* get, not stale: the if body is skipped, input is dropped
Hit(input) ==
  /\ ~IsStale
  /\ UNCHANGED <<f, t, heap, now, last>>

\* the caller's record of a get call: the state the call found, and its outcome
\* (panic is "none" when the call returned an Rc, else what unwound; done is the
\* clock reading when the call ended)
Record(input, panic) ==
  [input |-> input, at |-> now, last |-> last, had |-> t,
   invoked |-> f'.called # f.called, n |-> f'.called,
   ok |-> panic = "none", panic |-> panic, done |-> now',
   rc |-> IF panic = "none" THEN t' ELSE None,
   val |-> IF panic = "none" THEN heap'[t'] ELSE 0]

\* self.t.as_ref().unwrap() at the end of get
Unwrap == IF t' = None THEN "unwrap" ELSE "none"

\* MemoizedWithExpiration::get(input), with the caller's record of the call
ExpGet(input) ==
  /\ Len(e_log) < MaxCalls
  /\ \/ /\ \/ \E dt \in 0..MaxProducerTime : Recompute(input, dt)
           \/ Hit(input)
        /\ e_log' = Append(e_log, Record(input, Unwrap))
     \/ /\ \E dt \in 0..MaxProducerTime : Unwind(input, dt)
        /\ e_log' = Append(e_log, Record(input, "producer"))
  /\ UNCHANGED <<duration>>
  /\ UNCHANGED lazyVars
  /\ UNCHANGED th

\* time passes between calls
Tick ==
  /\ now < MaxTime
  /\ now' = now + 1
  /\ UNCHANGED <<duration, last, f, t, heap, e_log>>
  /\ UNCHANGED lazyVars
  /\ UNCHANGED th

\* ---- get without &mut exclusivity: two callers, statement by statement ---

\* the rest of the state, for a step of one caller
RaceFrame == UNCHANGED <<duration, e_log>> /\ UNCHANGED lazyVars

\* caller p evaluates the condition of get's if
RaceCheck(p) ==
  /\ th[p].pc = "start"
  /\ th' = [th EXCEPT ![p] =
              [Outside EXCEPT !.pc = IF IsStale THEN "call" ELSE "clone",
                              !.saw = IsStale,
                              !.had = t, !.hadLast = last, !.at = now,
                              !.n0 = f.called]]
  /\ UNCHANGED <<f, t, heap, now, last>>
  /\ RaceFrame

\* a get that tests staleness again before it calls the producer
RaceCallRechecked(p, input, dt) ==
  /\ th[p].pc = "call"
  /\ now + dt <= MaxTime
  /\ IF IsStale
       THEN /\ f' = [f EXCEPT !.called = @ + 1]
            /\ now' = now + dt
            /\ th' = [th EXCEPT ![p].pc = "store", ![p].inv = TRUE,
                         ![p].val = Produce(f.kind, f.called + 1, input)]
       ELSE /\ th' = [th EXCEPT ![p].pc = "clone"]
            /\ UNCHANGED <<f, now>>
  /\ UNCHANGED <<t, heap, last>>
  /\ RaceFrame

\* caller p, having found the memoizer stale, calls (self.f)(input), where
\* its argument is consumed: after dt
\* it returns a value or unwinds
RaceCall(p, input, dt) ==
  /\ th[p].pc = "call"
  /\ now + dt <= MaxTime
  /\ f' = [f EXCEPT !.called = @ + 1]
  /\ now' = now + dt
  /\ \/ th' = [th EXCEPT ![p].pc = "store", ![p].inv = TRUE,
                  ![p].val = Produce(f.kind, f.called + 1, input)]
     \/ th' = [th EXCEPT ![p].pc = "unwound", ![p].inv = TRUE]
  /\ UNCHANGED <<t, heap, last>>
  /\ RaceFrame

\* caller p assigns self.t = Some(Rc::new(value))
RaceStore(p) ==
  /\ th[p].pc = "store"
  /\ heap' = Append(heap, th[p].val)
  /\ t' = Len(heap) + 1
  /\ th' = [th EXCEPT ![p].pc = "stamp"]
  /\ UNCHANGED <<f, now, last>>
  /\ RaceFrame

\* caller p assigns self.last = Instant::now()
RaceStamp(p) ==
  /\ th[p].pc = "stamp"
  /\ last' = now
  /\ th' = [th EXCEPT ![p].pc = "clone"]
  /\ UNCHANGED <<f, t, heap, now>>
  /\ RaceFrame

\* caller p returns Rc::clone(self.t.as_ref().unwrap())
RaceClone(p) ==
  /\ th[p].pc = "clone"
  /\ th' = IF t = None
             THEN [th EXCEPT ![p].pc = "unwound"]
             ELSE [th EXCEPT ![p].pc = "done", ![p].rc = t]
  /\ UNCHANGED <<f, t, heap, now, last>>
  /\ RaceFrame

\* ---- specifications -----------------------------------------------------

InitLazy ==
  /\ \E kind \in Producers : MemoizedNew(kind)
  /\ MemoizedWithExpirationNew("counter", 0)

InitExp ==
  /\ MemoizedNew("counter")
  /\ \E kind \in Producers : \E d \in 0..MaxDuration :
       MemoizedWithExpirationNew(kind, d)

NextLazy == \E input \in Inputs : Get(input)

NextExp ==
  \/ \E input \in Inputs : ExpGet(input)
  \/ Tick

SpecLazy == InitLazy /\ [][NextLazy]_vars

SpecExp == InitExp /\ [][NextExp]_vars

\* A program that builds one memoizer of each type and then uses one of them:
\* the two types share no state, so their gets are explored one type at a time.
InitEither ==
  /\ \E kind \in Producers : MemoizedNew(kind)
  /\ \E kind \in Producers : \E d \in 0..MaxDuration :
       MemoizedWithExpirationNew(kind, d)

NextEither ==
  \/ e_log = <<>> /\ now = 0 /\ NextLazy
  \/ m_log = <<>> /\ NextExp

SpecEither == InitEither /\ [][NextEither]_vars

\* One memoizer, at most one ordinary get, then two callers that each enter
\* get once with nothing keeping their statements apart.
NextRace ==
  \/ /\ e_log = <<>>
     /\ \A p \in Callers : th[p].pc = "start"
     /\ \E input \in Inputs : ExpGet(input)
  \/ \E p \in Callers :
       \/ RaceCheck(p)
       \/ \E input \in Inputs : \E dt \in 0..MaxProducerTime :
            RaceCall(p, input, dt)
       \/ RaceStore(p)
       \/ RaceStamp(p)
       \/ RaceClone(p)
  \/ now < MaxRaceTime /\ Tick

SpecRace == InitExp /\ [][NextRace]_vars

\* ---- claims about Memoized ----------------------------------------------

\* the get calls of a log that returned
Returned(log) == {i \in 1..Len(log) : log[i].ok}

\* the get calls of a log that invoked the producer
Invoking(log) == {i \in 1..Len(log) : log[i].invoked}

\* the first get call of a log that returned (the log has one)
FirstReturned(log) ==
  CHOOSE i \in Returned(log) : \A j \in Returned(log) : i <= j

\* C1 as stated: after N >= 1 get calls the producer has been invoked exactly
\* once in total, by the first call, and every value returned is the result
\* of that first invocation.
C1_Original ==
  Len(m_log) >= 1 =>
    /\ m_f.called = 1
    /\ m_log[1].invoked
    /\ \A i \in Returned(m_log) :
         m_log[i].val = Produce(m_f.kind, 1, m_log[1].input)

\* C1 amended: a get invokes the producer exactly when no earlier get has
\* returned, once; so the producer returns normally at most once (and is
\* invoked exactly once when its first invocation returns), and every get
\* that returns gives the one value stored by that invocation.
C1_SingleComputation ==
  /\ \A i \in 1..Len(m_log) :
       m_log[i].invoked <=> (\A j \in 1..(i - 1) : ~m_log[j].ok)
  /\ m_f.called = Cardinality(Invoking(m_log))
  /\ Cardinality(Invoking(m_log) \cap Returned(m_log)) <= 1
  /\ \A i \in Returned(m_log) : m.tag = "Data" /\ m_log[i].val = m.t
  /\ (Len(m_log) >= 1 /\ m_log[1].ok) => m_f.called = 1

\* C1 witness: the first get failed, the second computed and the third
\* returned the stored value without invoking the producer.
C1_Witness ==
  /\ Len(m_log) >= 3
  /\ ~m_log[1].ok
  /\ m_log[2].ok /\ m_log[2].invoked
  /\ m_log[3].ok /\ ~m_log[3].invoked
  /\ m_log[3].val = m_log[2].val

\* C7: a get whose producer unwinds leaves the memoizer UnInitialized (no
\* Data was stored), and the get after it invokes the producer again.
C7_FailureKeepsPending ==
  \A i \in 1..Len(m_log) :
    ~m_log[i].ok =>
      /\ m_log[i].invoked
      /\ i = Len(m_log) => m = [tag |-> "UnInitialized", t |-> 0]
      /\ i < Len(m_log) => m_log[i + 1].invoked

\* C7 witness: the first get failed and the second invoked the producer.
C7_Witness ==
  /\ Len(m_log) >= 2
  /\ ~m_log[1].ok
  /\ m_log[2].invoked
  /\ m_f.called = 2

\* C8 as stated: every value returned is the producer applied to the input of
\* the first get.
C8_Original ==
  \A i \in Returned(m_log) :
    m_log[i].val = Produce(m_f.kind, m_f.called, m_log[1].input)

\* C8 amended: every value returned is the producer applied to the input of
\* the first get that returned (the first get, when the producer does not
\* fail); the inputs of all later gets do not matter.
C8_ResolvingInputOnly ==
  \A i \in Returned(m_log) :
    m_log[i].val = Produce(m_f.kind, FirstReturned(m_log),
                           m_log[FirstReturned(m_log)].input)

\* C8 witness: the "succ" producer, two gets with different inputs, both
\* returning.
C8_Witness ==
  /\ m_f.kind = "succ"
  /\ Len(m_log) >= 2
  /\ m_log[1].ok /\ m_log[2].ok
  /\ m_log[1].input # m_log[2].input

\* ---- claims about MemoizedWithExpiration --------------------------------

\* a recorded get found a stored value whose age was within the duration
Fresh(r) == r.had # None /\ r.at - r.last <= duration

\* a recorded get found a stored value older than the duration
Expired(r) == r.had # None /\ r.at - r.last > duration

\* a recorded get found the memoizer stale
Stale(r) == r.had = None \/ r.at - r.last > duration

\* the producer's invocation count before the i-th recorded get
CalledBefore(i) == IF i = 1 THEN 0 ELSE e_log[i - 1].n

\* C2: a get that finds the value within D of the last computation does not
\* invoke the producer and returns the value the previous get returned; a get
\* that finds it older than D invokes the producer exactly once and, when the
\* producer returns, returns the value of that invocation in a new Rc.
C2_ExpirationCycle ==
  \A i \in 1..Len(e_log) :
    LET r == e_log[i] IN
    /\ Fresh(r) =>
         /\ ~r.invoked /\ r.n = CalledBefore(i)
         /\ r.ok
         /\ i > 1 /\ e_log[i - 1].ok /\ r.val = e_log[i - 1].val
    /\ Expired(r) =>
         /\ r.invoked /\ r.n = CalledBefore(i) + 1
         /\ r.ok =>
              /\ r.val = Produce(f.kind, r.n, r.input)
              /\ \A j \in 1..(i - 1) : e_log[j].rc # r.rc

\* C2 witness: a get within D, then a get after D that returned another value.
C2_Witness ==
  \E i \in 2..(Len(e_log) - 1) :
    /\ Fresh(e_log[i]) /\ e_log[i].at > e_log[i].last
    /\ Expired(e_log[i + 1]) /\ e_log[i + 1].ok
    /\ e_log[i + 1].val # e_log[i].val

\* C3: every handle ever returned still holds the value it was returned with,
\* whatever gets (recomputing or not) came after it.
C3_HandleIndependence ==
  \A i \in Returned(e_log) : heap[e_log[i].rc] = e_log[i].val

\* C3 witness: a handle was returned, a later get recomputed another value,
\* and the memoizer now holds a different Rc.
C3_Witness ==
  \E i \in Returned(e_log) : \E j \in Returned(e_log) :
    /\ i < j
    /\ e_log[j].invoked
    /\ e_log[j].val # e_log[i].val
    /\ t # e_log[i].rc

\* C4: a get on a memoizer that is not stale invokes nothing and leaves
\* last, t (and the value it points to) and duration as they were; and no get
\* invokes the producer more than once.
C4_FreshGetFrame ==
  [][Len(e_log') = Len(e_log) + 1 =>
       /\ (t # None /\ now - last <= duration) =>
            /\ f' = f
            /\ last' = last /\ t' = t /\ heap' = heap
            /\ duration' = duration
       /\ f'.called - f.called <= 1]_vars

\* C4 witness: the latest get found a value of positive age within the
\* duration and did not invoke the producer.
C4_Witness ==
  /\ Len(e_log) >= 2
  /\ Fresh(e_log[Len(e_log)])
  /\ e_log[Len(e_log)].at > e_log[Len(e_log)].last
  /\ ~e_log[Len(e_log)].invoked

\* C5 as stated: with duration = 0 every get invokes the producer.
C5_Original ==
  duration = 0 => \A i \in 1..Len(e_log) : e_log[i].invoked

\* C5 amended: with duration = 0 a get invokes the producer exactly when t is
\* unset or the clock reads strictly later than last; a get at the clock
\* reading stored in last does not invoke it.
C5_ZeroDuration ==
  duration = 0 =>
    \A i \in 1..Len(e_log) :
      e_log[i].invoked <=>
        (e_log[i].had = None \/ e_log[i].at > e_log[i].last)

\* C5 witness: duration = 0, a get at the clock reading of last that did not
\* invoke the producer, and a get at a later reading that did.
C5_Witness ==
  /\ duration = 0
  /\ \E i \in 1..Len(e_log) :
       e_log[i].had # None /\ e_log[i].at = e_log[i].last /\ ~e_log[i].invoked
  /\ \E i \in 1..Len(e_log) :
       e_log[i].had # None /\ e_log[i].at > e_log[i].last /\ e_log[i].invoked

\* C6: a get whose producer unwinds leaves t and last (and the values of the
\* Rcs) exactly as it found them, and the next get, finding that same state
\* stale, invokes the producer again.
C6_FailureLeavesState ==
  \A i \in 1..Len(e_log) :
    LET r == e_log[i] IN
    ~r.ok =>
      /\ r.invoked /\ Stale(r)
      /\ i = Len(e_log) => t = r.had /\ last = r.last
      /\ i < Len(e_log) =>
           /\ e_log[i + 1].had = r.had /\ e_log[i + 1].last = r.last
           /\ Stale(e_log[i + 1]) /\ e_log[i + 1].invoked
      /\ r.had # None =>
           \E j \in 1..(i - 1) :
             e_log[j].ok /\ e_log[j].rc = r.had /\ heap[r.had] = e_log[j].val

\* C6 witness: a get on an expired value failed, and the get after it
\* invoked the producer again.
C6_Witness ==
  \E i \in 2..(Len(e_log) - 1) :
    /\ ~e_log[i].ok /\ e_log[i].had # None
    /\ e_log[i + 1].invoked /\ e_log[i + 1].ok

\* the latest stale get among the first i recorded gets
LastStale(i) ==
  CHOOSE j \in 1..i :
    Stale(e_log[j]) /\ \A k \in (j + 1)..i : ~Stale(e_log[k])

\* C9: a get that is not stale invokes nothing, whatever its input; every
\* value returned is the producer applied to the input of the most recent
\* stale get.
C9_InputOfLastStaleGet ==
  \A i \in Returned(e_log) :
    /\ ~Stale(e_log[i]) => ~e_log[i].invoked
    /\ e_log[i].val = Produce(f.kind, e_log[LastStale(i)].n,
                              e_log[LastStale(i)].input)

\* C9 witness: the "succ" producer: get(0) gives 1, an immediate get(1) still
\* gives 1, get(1) after expiration gives 2.
C9_Witness ==
  /\ f.kind = "succ"
  /\ Len(e_log) >= 3
  /\ e_log[1].input = 0 /\ e_log[1].ok /\ e_log[1].val = 1
  /\ e_log[2].input = 1 /\ e_log[2].ok /\ e_log[2].val = 1
  /\ e_log[2].at = e_log[1].at
  /\ e_log[3].input = 1 /\ e_log[3].ok /\ e_log[3].val = 2

\* C10: between gets, t is unset exactly when no invocation of the producer
\* has ever returned a value (a failed invocation computes nothing).
C10_UnsetIffNeverComputed ==
  (t = None) <=> ~(\E i \in 1..Len(e_log) : e_log[i].invoked /\ e_log[i].ok)

\* C10 witness: a value was computed and a later get on it failed: t is
\* still set.
C10_Witness ==
  /\ t # None
  /\ Len(e_log) >= 2
  /\ ~e_log[Len(e_log)].ok

\* ---- the state machine of Memoized --------------------------------------

\* C11: the memoizer starts UnInitialized (Pending); the only change of its
\* state is from UnInitialized to Data (Resolved), so it happens at most once;
\* once Data, every later get leaves it Data with the identical value.
C11_ResolvedIsTerminal ==
  /\ m.tag = "UnInitialized"
  /\ [][/\ m.tag = "Data" => m' = m
        /\ m' # m => m.tag = "UnInitialized" /\ m'.tag = "Data"]_vars

\* C11 witness: the memoizer is Data and the two latest gets returned its
\* value without invoking the producer.
C11_Witness ==
  /\ m.tag = "Data"
  /\ Len(m_log) >= 3
  /\ \A i \in (Len(m_log) - 1)..Len(m_log) :
       m_log[i].ok /\ ~m_log[i].invoked /\ m_log[i].val = m.t

\* ---- the state machine of MemoizedWithExpiration ------------------------

\* the memoizer holds a value whose age is within the duration
FreshNow == t # None /\ now - last <= duration

\* the memoizer holds a value older than the duration
ExpiredNow == t # None /\ now - last > duration

\* C12: the memoizer starts Empty (t unset) and no step unsets t again; a
\* Fresh memoizer becomes Stale only by the clock advancing, with no get and
\* no change of t or last; a Stale one becomes Fresh only by a get that invoked
\* the producer and returned; and a Stale memoizer can always be made Fresh
\* again by a get, so the cycle repeats as long as gets are made.
C12_FreshStaleCycle ==
  /\ t = None
  /\ [][/\ t # None => t' # None
        /\ (FreshNow /\ ExpiredNow') =>
             /\ now' > now
             /\ last' = last /\ t' = t /\ e_log' = e_log
        /\ (ExpiredNow /\ FreshNow') =>
             /\ Len(e_log') = Len(e_log) + 1
             /\ e_log'[Len(e_log')].invoked /\ e_log'[Len(e_log')].ok]_vars
  /\ []((ExpiredNow /\ Len(e_log) < MaxCalls) =>
          ENABLED (\E input \in Inputs : ExpGet(input) /\ FreshNow'))

\* C12 witness: Stale for the third time: the value was computed, expired and
\* recomputed twice, and has expired again.
C12_Witness ==
  /\ Len(e_log) >= 3
  /\ \A i \in 1..3 : e_log[i].invoked /\ e_log[i].ok
  /\ e_log[2].had # None /\ e_log[3].had # None
  /\ ExpiredNow

\* C13: a stored value is stale only when its age strictly exceeds the
\* duration: a get that invoked the producer on a stored value found it older
\* than the duration, and a get that finds the age equal to the duration
\* invokes nothing and returns the Rc it found.
C13_StrictBoundary ==
  \A i \in 1..Len(e_log) :
    LET r == e_log[i] IN
    /\ (r.had # None /\ r.invoked) => r.at - r.last > duration
    /\ (r.had # None /\ r.at - r.last = duration) =>
         /\ ~r.invoked
         /\ r.ok /\ r.rc = r.had /\ r.val = heap[r.had]

\* C13 witness: a positive duration, and a get exactly that long after the
\* last computation that returned the stored value.
C13_Witness ==
  /\ duration >= 1
  /\ \E i \in 1..Len(e_log) :
       /\ e_log[i].had # None
       /\ e_log[i].at - e_log[i].last = duration
       /\ e_log[i].ok /\ ~e_log[i].invoked

\* C14: the first get on a new memoizer finds t unset and invokes the producer
\* exactly once, whatever the clock reads: the construction instant in last is
\* not consulted, even when it is within the duration.
C14_FirstGetComputes ==
  Len(e_log) >= 1 =>
    /\ e_log[1].had = None
    /\ e_log[1].invoked /\ e_log[1].n = 1
    /\ e_log[1].panic \in {"none", "producer"}

\* C14 witness: the first get came within the duration of construction and
\* returned the value it computed.
C14_Witness ==
  /\ Len(e_log) >= 1
  /\ duration >= 1
  /\ e_log[1].at - e_log[1].last <= duration
  /\ e_log[1].invoked /\ e_log[1].ok

\* the field t as the i-th recorded get left it
TAfter(i) == IF i = Len(e_log) THEN t ELSE e_log[i + 1].had

\* the recorded gets in which the producer returned a value
Computed == {i \in 1..Len(e_log) : e_log[i].invoked /\ e_log[i].ok}

\* C15: the handle a get returns is the Rc the field t holds when the get
\* returns; two gets return the same Rc exactly when no computation happened
\* after the first of them up to the second; every computation puts its value
\* in an Rc that did not exist before.
C15_HandleIdentity ==
  /\ \A i \in Returned(e_log) : e_log[i].rc = TAfter(i)
  /\ \A i \in Returned(e_log) : \A j \in Returned(e_log) :
       i < j =>
         (e_log[i].rc = e_log[j].rc <=> Computed \cap ((i + 1)..j) = {})
  /\ \A i \in Computed :
       /\ e_log[i].rc # e_log[i].had
       /\ \A j \in 1..(i - 1) : e_log[j].rc # e_log[i].rc

\* C15 witness: two gets returned one Rc, and a recomputation after them
\* returned another.
C15_Witness ==
  \E i \in Returned(e_log) : \E j \in Returned(e_log) : \E k \in Computed :
    /\ i < j /\ j < k
    /\ e_log[i].rc = e_log[j].rc
    /\ e_log[k].rc # e_log[j].rc
    /\ t = e_log[k].rc

\* the field last as the i-th recorded get left it
LastAfter(i) == IF i = Len(e_log) THEN last ELSE e_log[i + 1].last

\* the latest recorded get in which the producer returned a value
LatestComputed == CHOOSE j \in Computed : \A k \in Computed : k <= j

\* C16: whenever control is outside get, t and last are a pair: each get,
\* returned or unwound, either left both as it found them or (having computed)
\* left t at its new Rc and last at the clock reading of its end; so both always
\* belong to the latest computation, when there is one.
C16_PairedUpdate ==
  /\ \A i \in 1..Len(e_log) :
       \/ TAfter(i) = e_log[i].had /\ LastAfter(i) = e_log[i].last
                                   /\ i \notin Computed
       \/ /\ i \in Computed
          /\ TAfter(i) = e_log[i].rc /\ TAfter(i) # e_log[i].had
          /\ LastAfter(i) = e_log[i].done
  /\ IF Computed = {}
       THEN t = None
       ELSE /\ t = e_log[LatestComputed].rc
            /\ last = e_log[LatestComputed].done

\* C16 witness: a recomputation that took time replaced an older pair, and a
\* later get failed: t and last are still those of the recomputation.
C16_Witness ==
  /\ Len(e_log) >= 3
  /\ e_log[1].ok
  /\ e_log[2].ok /\ e_log[2].invoked /\ e_log[2].done > e_log[2].at
  /\ ~e_log[3].ok
  /\ t = e_log[2].rc /\ last = e_log[2].done

\* C18: a computing get stores in last the clock reading taken after the
\* producer returned, not the reading of its staleness check; so a get that
\* returns the stored value without computing checked the clock at most
\* duration after the invocation that produced the value had completed.
C18_StampAfterProducer ==
  /\ \A i \in Computed :
       LastAfter(i) = e_log[i].done /\ e_log[i].done >= e_log[i].at
  /\ \A i \in Returned(e_log) :
       ~e_log[i].invoked =>
         \E j \in Computed :
           /\ j < i /\ Computed \cap ((j + 1)..i) = {}
           /\ e_log[j].rc = e_log[i].rc
           /\ e_log[i].at - e_log[j].done <= duration
           /\ e_log[i].at >= e_log[j].done

\* C18 witness: the producer took time, and a later get returned its value
\* although the duration had passed since that computing get's staleness
\* check (but not since the producer returned).
C18_Witness ==
  \E j \in Computed : \E i \in Returned(e_log) :
    /\ j < i /\ ~e_log[i].invoked
    /\ e_log[i].rc = e_log[j].rc
    /\ e_log[j].done > e_log[j].at
    /\ e_log[i].at - e_log[j].at > duration

\* ---- no panic of the memoizers' own ------------------------------------

\* C19: no get reaches unreachable!() or unwraps None: the only unwinding is
\* the producer's; whenever a get returns, Memoized is Data and holds the
\* value returned, and MemoizedWithExpiration has t set to the Rc returned.
C19_NoInternalPanic ==
  /\ \A i \in 1..Len(m_log) :
       /\ m_log[i].panic \in {"none", "producer"}
       /\ m_log[i].ok => m.tag = "Data" /\ m.t = m_log[i].val
  /\ \A i \in 1..Len(e_log) :
       /\ e_log[i].panic \in {"none", "producer"}
       /\ e_log[i].ok => TAfter(i) # None /\ TAfter(i) = e_log[i].rc

\* C19 witness: gets of MemoizedWithExpiration returned from both paths (the
\* if body taken, and skipped), and a get whose producer unwound came between.
C19_Witness ==
  /\ Len(e_log) >= 3
  /\ e_log[1].ok /\ e_log[1].invoked
  /\ e_log[2].panic = "producer"
  /\ e_log[3].ok /\ e_log[3].invoked
  /\ t # None

\* ---- two unsynchronised callers ----------------------------------------

\* caller p has evaluated the condition of get's if
Checked(p) == th[p].pc # "start"

\* caller p is past the producer call, if its get makes one
PastCall(p) == th[p].pc \notin {"start", "call"}

\* both callers evaluated the condition on the same stored pair, that is,
\* before either of them assigned t or last
SameCheck(p, q) ==
  /\ Checked(p) /\ Checked(q)
  /\ th[p].had = th[q].had /\ th[p].hadLast = th[q].hadLast

\* the smaller of two numbers
Min(a, b) == IF a <= b THEN a ELSE b

====
